---- MODULE Spec2Model ----
(***************************************************************************)
(* Model of generate/generate.go of random-data-load: the Insert object,   *)
(* its NotifyChan / Run / DryRun operations, the batching loop of run, the *)
(* per-chunk insert, the two goroutines of genQuery joined by a WaitGroup, *)
(* and the non-blocking progress notification.                             *)
(***************************************************************************)
EXTENDS Integers, Sequences, FiniteSets, TLC

\* ------------------------------------------------------------------ bounds
MaxCount == 3      \* largest row count passed to Run / DryRun
MaxNeg == 2        \* counts range over -MaxNeg .. MaxCount
MaxBulk == 2       \* bulk sizes range over 1 .. MaxBulk
MaxGen == 1        \* at most this many generate-columns
MaxSample == 3     \* at most this many sample-columns, over all constraints
MaxNames == 2      \* number of table names the override maps range over

Counts == (0 - MaxNeg) .. MaxCount
BulkSizes == 1 .. MaxBulk

VARIABLES
  table,            \* in.table: [gen |-> G, constraints |-> <<len_1, ..>>]
  notifyChan,       \* in.notifyChan: "nil", or the channel it holds, "open" or "closed"
  pc,               \* position of the caller's goroutine
  lastOp,           \* the API call made last: "none", "NotifyChan", "Run", "DryRun"
  prevChan,         \* the channel in.notifyChan held when NotifyChan was last called
  retChan,          \* the channel the last NotifyChan call returned
  count, bulksize, dryRun,          \* arguments of run
  deferChan,        \* TRUE when defer close(in.notifyChan) is registered
  completeInserts, remainder, i, n, okCount, err,   \* locals of run
  phase, cnt,       \* which insert call is running and its count argument
  values, wg,       \* genQuery: the row buffer and the WaitGroup counter
  genpc, genRow,    \* the generation goroutine and its loop index
  samplepc, consIdx, colIdx, sampleErr,   \* the sampling goroutine
  query,            \* the statement text genQuery returned
  writers,          \* history: <<row, col, writer>> of every write to the buffer
  logged,           \* history: <<row, col>> of every "unsupported datatypes" log line
  built,            \* history: number of chunks genQuery built in this run
  issued,           \* history: row counts of the statements issued in this run
  execs,            \* history: statements handed to db.DB.Exec in this run
  sink,             \* history: number of Write calls on in.writer in this run
  lastWrite,        \* history: the bytes of the last Write call and whether it succeeded
  okSum,            \* history: rows reported by the statements that succeeded
  failedAt,         \* history: index in issued of the statement that failed, or 0
  sampleErrAt,      \* history: the first chunk of this run whose sampling failed, or 0
  issuedBad,        \* history: a statement was issued for a chunk whose sampling failed
  notes,            \* history: the values of the notification attempts of this run
  lastNote,         \* outcome of the attempt just made: "sent", "dropped", "panic"
  ret,              \* the (int64, error) the last run returned
  panicAt,          \* where the goroutine panicked, "" if it did not
  fklinks,          \* in.fklinks: the ForeignKeyLinks given to New
  tableName, refTableName,   \* the pair sampleFieldsTable resolves
  fklink,           \* what relationship returned, "" before the call
  sampler,          \* the sampler createSamplerFromForeignkeyLinks made, "" before
  fkpc              \* position in the resolution: "off", "resolve", "create", "made"

runVars == <<count, bulksize, dryRun, deferChan, completeInserts, remainder,
             i, n, okCount, err, phase, cnt>>
genVars == <<values, wg, genpc, genRow, samplepc, consIdx, colIdx, sampleErr,
             query, writers, logged>>
histVars == <<built, issued, execs, sink, lastWrite, okSum, failedAt, sampleErrAt, issuedBad,
              notes, lastNote, ret>>
apiVars == <<lastOp, prevChan, retChan>>
fkVars == <<fklinks, tableName, refTableName, fklink, sampler, fkpc>>
vars == <<table, pc, panicAt, notifyChan, apiVars, runVars, genVars, histVars, fkVars>>

\* ------------------------------------------------------------ the table
RECURSIVE SumSeq(_)
SumSeq(s) == IF s = <<>> THEN 0 ELSE Head(s) + SumSeq(Tail(s))

RECURSIVE SeqsUpTo(_, _)
SeqsUpTo(S, k) ==
  IF k = 0 THEN {<<>>}
  ELSE LET shorter == SeqsUpTo(S, k - 1)
       IN shorter \cup {Append(s, x) : s \in {t \in shorter : Len(t) = k - 1}, x \in S}

\* db.Table as the code reads it: the number of generate-columns, which of
\* them have a data type generateFieldsRow has no case for (none here) and,
\* per constraint, the number of referenced fields (at least one each).
Tables ==
  [gen : 0 .. MaxGen, unsup : {{}},
   constraints : {s \in SeqsUpTo(1 .. MaxSample, MaxSample) : SumSeq(s) <= MaxSample}]

\* tables with at least one generate-column of an unsupported data type
MaxTypedGen == MaxGen + 1
UnsupportedTables ==
  {t \in [gen : 1 .. MaxTypedGen, unsup : SUBSET (1 .. MaxTypedGen),
          constraints : {<<>>, <<1>>}] :
     t.unsup # {} /\ t.unsup \subseteq 1 .. t.gen}

\* len(in.table.FieldsToGenerate())
FieldsToGenerate(t) == t.gen

\* len(in.table.FieldsToSample()): the referencing columns of the constraints,
\* in constraint order.
FieldsToSample(t) == SumSeq(t.constraints)

\* ------------------------------------------------------------ values
Unset == [by |-> "nil", j |-> 0]
Generated == [by |-> "gen", j |-> 0]
Sampled(j) == [by |-> "fk", j |-> j]

\* values := make([]InsertValues, count); values[i] = make(InsertValues, G+S)
MakeValues(c, width) ==
  [r \in 1 .. c |-> [nil |-> FALSE, cells |-> [k \in 1 .. width |-> Unset]]]

\* the columns of values[i][:len(fieldsToGen)]
GenCols(t) == 1 .. FieldsToGenerate(t)

\* the sub-slice taken from values[i] itself instead of values[i][len(fieldsToGen):]
SubSliceCols_NoGenOffset(t, cIdx, reflen) == (cIdx + 1) .. (cIdx + reflen)

\* the columns of values[i][len(fieldsToGen):][colIdx : colIdx+len(ReferencedFields)]
SubSliceCols(t, cIdx, reflen) ==
  (FieldsToGenerate(t) + cIdx + 1) .. (FieldsToGenerate(t) + cIdx + reflen)

\* the switch of generateFieldsRow: the default case leaves value nil
ValueFor(t, k) == IF k \in t.unsup THEN Unset ELSE Generated

\* a default case that returns: the columns after the unsupported one are not reached
generateFieldsRow_StopAtUnsupported(t, v, row) ==
  [v EXCEPT ![row].cells =
     [k \in DOMAIN @ |->
        IF k \in GenCols(t) /\ (\A u \in t.unsup : k < u)
          THEN ValueFor(t, k) ELSE @[k]]]

\* generateFieldsRow(fieldsToGen, values[row][:len(fieldsToGen)]):
\* insertValues[colIndex] = value for every column of the slice
generateFieldsRow(t, v, row) ==
  [v EXCEPT ![row].cells =
     [k \in DOMAIN @ |-> IF k \in GenCols(t) THEN ValueFor(t, k) ELSE @[k]]]

\* the columns whose default case logs "unsupported datatypes"
LoggedCols(t) == t.unsup \cap GenCols(t)

\* write w into the cells cols of the rows rows
WriteCells(v, rows, cols, w) ==
  [r \in DOMAIN v |->
     IF r \in rows
       THEN [v[r] EXCEPT !.cells = [k \in DOMAIN v[r].cells |->
                                      IF k \in cols THEN w ELSE v[r].cells[k]]]
       ELSE v[r]]

\* ------------------------------------------------------------ statement text
Tok(kind, cells) == [k |-> kind, cells |-> cells]

\* db.EscapedNamesListFromFields(append(fieldsToGen, fieldsToSample...))
RECURSIVE SampleColumns(_, _)
SampleColumns(cons, j) ==
  IF j > Len(cons) THEN <<>>
  ELSE [k \in 1 .. cons[j] |-> Sampled(j)] \o SampleColumns(cons, j + 1)

\* the column list built as append(fieldsToSample, fieldsToGen...)
ColumnList_SampleFirst(t) ==
  SampleColumns(t.constraints, 1) \o [k \in 1 .. FieldsToGenerate(t) |-> Generated]

ColumnList(t) ==
  [k \in 1 .. FieldsToGenerate(t) |-> Generated] \o SampleColumns(t.constraints, 1)

\* InsertValues.String(): the cells of the row in order
RowString(row) == row.cells

\* the loop writing a comma after every row it renders
RECURSIVE RenderRows_CommaAfterEach(_, _)
RenderRows_CommaAfterEach(v, r) ==
  IF r > Len(v) THEN <<>>
  ELSE IF v[r].nil THEN RenderRows_CommaAfterEach(v, r + 1)
  ELSE <<Tok("row", RowString(v[r])), Tok("comma", <<>>)>>
       \o RenderRows_CommaAfterEach(v, r + 1)

\* the loop over values of genQuery
RECURSIVE RenderRows(_, _)
RenderRows(v, r) ==
  IF r > Len(v) THEN <<>>
  ELSE IF v[r].nil THEN RenderRows(v, r + 1)
  ELSE <<Tok("row", RowString(v[r]))>>
       \o (IF r # Len(v) THEN <<Tok("comma", <<>>)>> ELSE <<>>)
       \o RenderRows(v, r + 1)

Render(t, v) == <<Tok("hdr", ColumnList(t))>> \o RenderRows(v, 1)

\* the statement written without its newline
WriteArg_NoNewline(q) == q

\* []byte(*insertQuery + "\n")
WriteArg(q) == q \o <<Tok("nl", <<>>)>>

\* ------------------------------------------------------------ run's arithmetic
\* a division that rounds toward minus infinity
GoDiv_Floor(a, b) == a \div b

\* completeInserts := count / bulksize; Go's int64 division truncates toward zero
GoDiv(a, b) == IF a >= 0 THEN a \div b ELSE 0 - ((0 - a) \div b)

\* the remainder computed from the number of inserts instead of their rows
RemainderOf_NoMul(c, complete, b) == c - complete

\* remainder := count - completeInserts*bulksize
RemainderOf(c, complete, b) == c - complete * b

\* a loop that goes on after a failed insert
ReturnsOnError_Never(e) == FALSE

\* if err != nil { return okCount, err } in the loop over the complete inserts
ReturnsOnError(e) == e # "nil"

\* ------------------------------------------------------------ Init
\* New: no channel, no run yet
InitInsert ==
  /\ notifyChan = "nil"
  /\ pc = "idle" /\ panicAt = ""
  /\ lastOp = "none" /\ prevChan = "nil" /\ retChan = "nil"
  /\ count = 0 /\ bulksize = 1 /\ dryRun = FALSE /\ deferChan = FALSE
  /\ completeInserts = 0 /\ remainder = 0 /\ i = 0 /\ n = 0 /\ okCount = 0
  /\ err = "nil" /\ phase = "none" /\ cnt = 0
  /\ values = <<>> /\ wg = 0 /\ genpc = "off" /\ genRow = 0
  /\ samplepc = "off" /\ consIdx = 1 /\ colIdx = 0 /\ sampleErr = FALSE
  /\ query = <<>> /\ writers = {} /\ logged = {}
  /\ built = 0 /\ issued = <<>> /\ execs = 0 /\ sink = 0 /\ okSum = 0
  /\ lastWrite = [arg |-> <<>>, ok |-> TRUE]
  /\ failedAt = 0 /\ sampleErrAt = 0 /\ issuedBad = FALSE /\ notes = <<>>
  /\ lastNote = "none"
  /\ ret = [valid |-> FALSE, n |-> 0, err |-> "nil"]

\* the ForeignKeyLinks of the command line's defaults: no override
DefaultLinks ==
  [DefaultRelationship |-> "random-1-n", DBRandomOneToMany |-> <<>>, OneToOne |-> <<>>]

\* no pair is being resolved
NoResolution ==
  /\ tableName = "" /\ refTableName = "" /\ fklink = "" /\ sampler = ""
  /\ fkpc = "off"

Init ==
  /\ table \in Tables
  /\ InitInsert
  /\ fklinks = DefaultLinks /\ NoResolution

\* the caller's goroutine is between two calls on the Insert
Idle == pc = "idle"

\* ------------------------------------------------------------ NotifyChan
\* generate.go:58-65. Closing a channel that is already closed panics.
NotifyChan ==
  /\ Idle
  /\ lastOp' = "NotifyChan"
  /\ IF notifyChan = "closed"
       THEN /\ pc' = "panic" /\ panicAt' = "NotifyChan"
            /\ prevChan' = "closed" /\ retChan' = "nil"
            /\ UNCHANGED notifyChan
       ELSE /\ prevChan' = IF notifyChan = "nil" THEN "nil" ELSE "closed"
            /\ notifyChan' = "open" /\ retChan' = "open"
            /\ pc' = "idle" /\ UNCHANGED panicAt
  /\ UNCHANGED <<table, runVars, genVars, histVars>>
  /\ UNCHANGED fkVars

\* ------------------------------------------------------------ run
\* generate.go:77-96: the deferred close is registered, the plan is computed.
run(c, b, d) ==
  /\ Idle
  /\ count' = c /\ bulksize' = b /\ dryRun' = d
  /\ deferChan' = (notifyChan # "nil")
  /\ completeInserts' = GoDiv(c, b)
  /\ remainder' = RemainderOf(c, GoDiv(c, b), b)
  /\ i' = 0 /\ n' = 0 /\ okCount' = 0 /\ err' = "nil"
  /\ phase' = "none" /\ cnt' = 0
  /\ built' = 0 /\ issued' = <<>> /\ execs' = 0 /\ sink' = 0 /\ okSum' = 0
  /\ lastWrite' = [arg |-> <<>>, ok |-> TRUE]
  /\ failedAt' = 0 /\ sampleErrAt' = 0 /\ issuedBad' = FALSE /\ notes' = <<>>
  /\ lastNote' = "none"
  /\ ret' = [valid |-> FALSE, n |-> 0, err |-> "nil"]
  /\ lastOp' = IF d THEN "DryRun" ELSE "Run"
  /\ prevChan' = "nil" /\ retChan' = "nil"
  /\ pc' = "loop"
  /\ UNCHANGED <<table, panicAt, notifyChan, genVars>>
  /\ UNCHANGED fkVars

\* generate.go:68-70
Run == \E c \in Counts, b \in BulkSizes : run(c, b, FALSE)

\* generate.go:73-75
DryRun == \E c \in Counts, b \in BulkSizes : run(c, b, TRUE)

\* generate.go:98-99 and 107 (which insert is called), 195-201 (insert's early
\* return) and 124-148 (genQuery allocates the buffer).
CallInsert ==
  /\ pc = "loop"
  /\ LET full == i < completeInserts
         c == IF full THEN bulksize ELSE remainder
     IN /\ phase' = IF full THEN "full" ELSE "rem"
        /\ cnt' = c
        /\ IF c < 1
             THEN /\ n' = 0 /\ err' = "nil"
                  /\ pc' = "notify"
                  /\ UNCHANGED <<genVars, built, sampleErrAt>>
             ELSE /\ values' = MakeValues(c, FieldsToGenerate(table) + FieldsToSample(table))
                  /\ wg' = 0 /\ genpc' = "off" /\ genRow' = 0
                  /\ samplepc' = "off" /\ consIdx' = 1 /\ colIdx' = 0
                  /\ sampleErr' = FALSE /\ query' = <<>> /\ writers' = {}
                  /\ logged' = {}
                  /\ built' = built + 1
                  /\ pc' = "spawn_gen"
                  /\ UNCHANGED <<n, err, sampleErrAt>>
  /\ UNCHANGED <<table, panicAt, notifyChan, apiVars, count, bulksize, dryRun,
                 deferChan, completeInserts, remainder, i, okCount,
                 issued, execs, sink, lastWrite, okSum, failedAt, issuedBad, notes, ret>>
  /\ lastNote' = "none"
  /\ UNCHANGED fkVars

\* ------------------------------------------------------------ genQuery
\* a goroutine started without wg.Add(1)
WgAfterAdd_NoAdd(w, nfields) == w

\* wg.Add(1) before a goroutine is started, only when it has columns to fill
WgAfterAdd(w, nfields) == IF nfields # 0 THEN w + 1 ELSE w

\* rendering that does not wait for the goroutines
WaitPasses_NoWait(w) == TRUE

\* wg.Wait() returns when the counter is zero
WaitPasses(w) == w = 0

\* generate.go:152-160
SpawnGen ==
  /\ pc = "spawn_gen"
  /\ wg' = WgAfterAdd(wg, FieldsToGenerate(table))
  /\ genpc' = IF FieldsToGenerate(table) # 0 THEN "run" ELSE "off"
  /\ pc' = "spawn_sample"
  /\ UNCHANGED <<table, panicAt, notifyChan, apiVars, runVars, histVars,
                 values, genRow, samplepc, consIdx, colIdx, sampleErr, query, writers, logged>>
  /\ UNCHANGED fkVars

\* generate.go:162-179 (the goroutine's sub-slices are taken when it samples)
SpawnSample ==
  /\ pc = "spawn_sample"
  /\ wg' = WgAfterAdd(wg, FieldsToSample(table))
  /\ samplepc' = IF FieldsToSample(table) # 0 THEN "run" ELSE "off"
  /\ pc' = "wait"
  /\ UNCHANGED <<table, panicAt, notifyChan, apiVars, runVars, histVars,
                 values, genpc, genRow, consIdx, colIdx, sampleErr, query, writers, logged>>
  /\ UNCHANGED fkVars

\* generate.go:155-157 and 219-256: one call of generateFieldsRow
GenerateFieldsRow ==
  /\ genpc = "run" /\ genRow < cnt
  /\ values' = generateFieldsRow(table, values, genRow + 1)
  /\ logged' = logged \cup {<<genRow + 1, c>> : c \in LoggedCols(table)}
  /\ writers' = writers \cup {<<genRow + 1, c, Generated>> : c \in GenCols(table)}
  /\ genRow' = genRow + 1
  /\ UNCHANGED <<table, pc, panicAt, notifyChan, apiVars, runVars, histVars,
                 wg, genpc, samplepc, consIdx, colIdx, sampleErr, query>>
  /\ UNCHANGED fkVars

\* generate.go:158: wg.Done() of the generation goroutine
GenDone ==
  /\ genpc = "run" /\ genRow = cnt
  /\ IF wg < 1
       THEN /\ pc' = "panic" /\ panicAt' = "wg.Done" /\ UNCHANGED wg
       ELSE /\ wg' = wg - 1 /\ UNCHANGED <<pc, panicAt>>
  /\ genpc' = "done"
  /\ UNCHANGED <<table, notifyChan, apiVars, runVars, histVars,
                 values, genRow, samplepc, consIdx, colIdx, sampleErr, query, writers, logged>>
  /\ UNCHANGED fkVars

\* sampler.Sample() over the sub-slice it was given: it fills the cells cols of
\* the first k rows with values of the j-th constraint's referenced table
Sample(v, k, cols, j) == WriteCells(v, 1 .. k, cols, Sampled(j))

\* generate.go:263-278: one constraint of sampleFieldsTable. sampler.Sample()
\* fills the sub-slice of every row, or fails having filled the first k rows.
SampleConstraint ==
  /\ samplepc = "run" /\ consIdx <= Len(table.constraints)
  /\ pc # "panic"
  /\ LET reflen == table.constraints[consIdx]
         cols == SubSliceCols(table, colIdx, reflen)
     IN \/ /\ values' = Sample(values, cnt, cols, consIdx)
           /\ writers' = writers \cup
                 {<<r, c, Sampled(consIdx)>> : r \in 1 .. cnt, c \in cols}
           /\ colIdx' = colIdx + reflen
           /\ consIdx' = consIdx + 1
           /\ UNCHANGED <<samplepc, sampleErr, sampleErrAt>>
        \/ \E k \in 0 .. (cnt - 1) :
           /\ values' = Sample(values, k, cols, consIdx)
           /\ writers' = writers \cup
                 {<<r, c, Sampled(consIdx)>> : r \in 1 .. k, c \in cols}
           /\ sampleErr' = TRUE
           /\ sampleErrAt' = IF sampleErrAt = 0 THEN built ELSE sampleErrAt
           /\ samplepc' = "ret"
           /\ UNCHANGED <<colIdx, consIdx>>
  /\ UNCHANGED <<table, pc, panicAt, notifyChan, apiVars, runVars, wg, genpc, genRow,
                 logged, query, built, issued, execs, sink, lastWrite, okSum, failedAt, issuedBad,
                 notes, lastNote, ret>>
  /\ UNCHANGED fkVars

\* an error branch that returns from the goroutine before wg.Done()
WgDoneCalls_NoneOnError(failed) == IF failed THEN 0 ELSE 1

\* generate.go:174-177: wg.Done() follows the if err != nil block, so it is
\* called once whether sampleFieldsTable failed or not
WgDoneCalls(failed) == 1

\* generate.go:173-177: sampleFieldsTable has returned; an error is logged and
\* dropped; wg.Done() of the sampling goroutine
SampleDone ==
  /\ \/ samplepc = "ret"
     \/ samplepc = "run" /\ consIdx > Len(table.constraints)
  /\ IF wg < WgDoneCalls(sampleErr)
       THEN /\ pc' = "panic" /\ panicAt' = "wg.Done" /\ UNCHANGED wg
       ELSE /\ wg' = wg - WgDoneCalls(sampleErr) /\ UNCHANGED <<pc, panicAt>>
  /\ samplepc' = "done"
  /\ UNCHANGED <<table, notifyChan, apiVars, runVars, histVars,
                 values, genpc, genRow, consIdx, colIdx, sampleErr, query, writers, logged>>
  /\ UNCHANGED fkVars

\* generate.go:181
Wait ==
  /\ pc = "wait"
  /\ WaitPasses(wg)
  /\ pc' = "render"
  /\ UNCHANGED <<table, panicAt, notifyChan, apiVars, runVars, genVars, histVars>>
  /\ UNCHANGED fkVars

\* generate.go:182-192: the buffer is read and the text is returned to insert
RenderQuery ==
  /\ pc = "render"
  /\ query' = Render(table, values)
  /\ pc' = "exec"
  /\ UNCHANGED <<table, panicAt, notifyChan, apiVars, runVars, histVars,
                 values, wg, genpc, genRow, samplepc, consIdx, colIdx, sampleErr, writers, logged>>
  /\ UNCHANGED fkVars

\* ------------------------------------------------------------ insert, run
\* a dry run that reports no row for a chunk it wrote
DryRunRows_None(c) == 0

\* return count, nil of the dry-run branch
DryRunRows(c) == c

\* res.RowsAffected(): what the database reports for a statement of c rows
RowsAffected(c) == 0 .. c

\* generate.go:203-217 (the statement is written or executed) and 100-103 or
\* 108 (run adds n to okCount and returns on an error of a complete insert)
Exec ==
  /\ pc = "exec"
  /\ issued' = Append(issued, cnt)
  /\ issuedBad' = (issuedBad \/ sampleErr)
  /\ \/ /\ dryRun
        /\ sink' = sink + 1 /\ lastWrite' = [arg |-> WriteArg(query), ok |-> TRUE]
        /\ n' = DryRunRows(cnt) /\ err' = "nil"
        /\ UNCHANGED <<execs, failedAt>>
     \/ /\ dryRun
        /\ sink' = sink + 1 /\ lastWrite' = [arg |-> WriteArg(query), ok |-> FALSE]
        /\ n' = 0 /\ err' = "write"
        /\ failedAt' = Len(issued) + 1
        /\ UNCHANGED execs
     \/ /\ ~dryRun
        /\ \E ra \in RowsAffected(cnt) : n' = ra
        /\ err' = "nil"
        /\ execs' = execs + 1
        /\ UNCHANGED <<sink, lastWrite, failedAt>>
     \/ /\ ~dryRun
        /\ n' = 0 /\ err' = "exec"
        /\ execs' = execs + 1
        /\ failedAt' = Len(issued) + 1
        /\ UNCHANGED <<sink, lastWrite>>
  /\ okSum' = IF err' = "nil" THEN okSum + n' ELSE okSum
  /\ okCount' = okCount + n'
  /\ pc' = IF phase = "full" /\ ReturnsOnError(err') THEN "return" ELSE "notify"
  /\ values' = <<>> /\ wg' = 0 /\ genpc' = "off" /\ genRow' = 0
  /\ samplepc' = "off" /\ consIdx' = 1 /\ colIdx' = 0
  /\ writers' = {} /\ logged' = {}
  /\ UNCHANGED <<table, panicAt, notifyChan, apiVars, count, bulksize, dryRun,
                 deferChan, completeInserts, remainder, i, phase, cnt, sampleErr, query,
                 built, sampleErrAt, notes, lastNote, ret>>
  /\ UNCHANGED fkVars

\* generate.go:114-121 called from 104 or 109, then the loop's i++ or the
\* return statement. The channel is unbuffered: the send case is taken when a
\* receiver is parked on the channel at that instant (ready), the default case
\* otherwise. A send on a closed channel panics, also inside a select.
NoteOutcome(ch, isClosed, ready) ==
  IF ch = "nil" THEN "nochan"
  ELSE IF isClosed THEN "panic"
  ELSE IF ready THEN "sent"
  ELSE "dropped"

Notify ==
  /\ pc = "notify"
  /\ \E ready \in BOOLEAN :
       LET out == NoteOutcome(notifyChan, notifyChan = "closed", ready)
       IN /\ lastNote' = out
          /\ notes' = IF out = "nochan" THEN notes ELSE Append(notes, n)
          /\ IF out = "panic"
               THEN pc' = "panic" /\ panicAt' = "notify" /\ UNCHANGED i
               ELSE /\ UNCHANGED panicAt
                    /\ IF phase = "full"
                         THEN pc' = "loop" /\ i' = i + 1
                         ELSE pc' = "return" /\ UNCHANGED i
  /\ UNCHANGED <<table, notifyChan, apiVars, count, bulksize,
                 dryRun, deferChan, completeInserts, remainder, n, okCount, err,
                 phase, cnt, genVars, built, issued, execs, sink, lastWrite, okSum, failedAt,
                 sampleErrAt, issuedBad, ret>>
  /\ UNCHANGED fkVars

\* generate.go:102 or 111 with the deferred close of 78-80
Return ==
  /\ pc = "return"
  /\ IF deferChan /\ notifyChan = "closed"
       THEN /\ pc' = "panic" /\ panicAt' = "return"
            /\ UNCHANGED <<notifyChan, ret>>
       ELSE /\ notifyChan' = IF deferChan THEN "closed" ELSE notifyChan
            /\ ret' = [valid |-> TRUE, n |-> okCount, err |-> err]
            /\ pc' = "done"
            /\ UNCHANGED panicAt
  /\ lastNote' = "none"
  /\ UNCHANGED <<table, apiVars, runVars, genVars,
                 built, issued, execs, sink, lastWrite, okSum, failedAt, sampleErrAt, issuedBad,
                 notes>>
  /\ UNCHANGED fkVars

\* the caller has the (int64, error) of the run and goes on; run's locals are gone
Resume ==
  /\ pc = "done"
  /\ pc' = "idle"
  /\ lastOp' = "none"
  /\ count' = 0 /\ bulksize' = 1 /\ dryRun' = FALSE /\ deferChan' = FALSE
  /\ completeInserts' = 0 /\ remainder' = 0 /\ i' = 0 /\ n' = 0 /\ okCount' = 0
  /\ err' = "nil" /\ phase' = "none" /\ cnt' = 0
  /\ sampleErr' = FALSE /\ query' = <<>>
  /\ built' = 0 /\ issued' = <<>> /\ execs' = 0 /\ sink' = 0 /\ okSum' = 0
  /\ lastWrite' = [arg |-> <<>>, ok |-> TRUE]
  /\ failedAt' = 0 /\ sampleErrAt' = 0 /\ issuedBad' = FALSE /\ notes' = <<>>
  /\ lastNote' = "none"
  /\ ret' = [valid |-> FALSE, n |-> 0, err |-> "nil"]
  /\ UNCHANGED <<table, panicAt, notifyChan, prevChan, retChan,
                 values, wg, genpc, genRow, samplepc, consIdx, colIdx, writers, logged>>
  /\ UNCHANGED fkVars

Next ==
  \/ NotifyChan
  \/ Run
  \/ DryRun
  \/ CallInsert
  \/ SpawnGen
  \/ SpawnSample
  \/ GenerateFieldsRow
  \/ GenDone
  \/ SampleConstraint
  \/ SampleDone
  \/ Wait
  \/ RenderQuery
  \/ Exec
  \/ Notify
  \/ Return
  \/ Resume

Spec == Init /\ [][Next]_vars

\* the same Insert made for a table that has unsupported generate-columns
InitTypes ==
  /\ table \in UnsupportedTables
  /\ InitInsert
  /\ fklinks = DefaultLinks /\ NoResolution

SpecTypes == InitTypes /\ [][Next]_vars

\* The Go scheduler runs every goroutine that can run, and the generators and
\* samplers return: each step of the assembly of a chunk is eventually taken.
AssemblyFairness ==
  /\ WF_vars(SpawnGen) /\ WF_vars(SpawnSample)
  /\ WF_vars(GenerateFieldsRow) /\ WF_vars(GenDone)
  /\ WF_vars(SampleConstraint) /\ WF_vars(SampleDone)
  /\ WF_vars(Wait) /\ WF_vars(RenderQuery)

FairSpec == Init /\ [][Next]_vars /\ AssemblyFairness

\* ------------------------------------------------------------ the sampler of a pair
insertVars == <<table, pc, panicAt, notifyChan, apiVars, runVars, genVars, histVars>>

\* table names, and the maps from table name to referenced table name
AllNames == <<"customers", "orders", "items", "ssns">>
TableNames == {AllNames[k] : k \in 1 .. MaxNames}
NameMaps == UNION {[D -> TableNames] : D \in SUBSET TableNames}
DefaultKinds == {"random-1-n", "1-1", "db-random-1-n", ""}
Links ==
  [DefaultRelationship : DefaultKinds, DBRandomOneToMany : NameMaps, OneToOne : NameMaps]

\* m[k] of a Go map[string]string: the zero value "" when k has no entry
MapGet(m, k) == IF k \in DOMAIN m THEN m[k] ELSE ""

\* the random-1-N override looked up before the 1-1 override
relationship_RandomFirst(r, tn, rn) ==
  IF MapGet(r.DBRandomOneToMany, tn) = rn THEN "db-random-1-n"
  ELSE IF MapGet(r.OneToOne, tn) = rn THEN "1-1"
  ELSE r.DefaultRelationship

\* generate.go:283-291
relationship(r, tn, rn) ==
  IF MapGet(r.OneToOne, tn) = rn THEN "1-1"
  ELSE IF MapGet(r.DBRandomOneToMany, tn) = rn THEN "db-random-1-n"
  ELSE r.DefaultRelationship

\* generate.go:298-306: which constructor is called
createSamplerFromForeignkeyLinks(link) ==
  CASE link = "1-1" -> "UniformSample"
    [] link = "db-random-1-n" -> "DBRandomSample"
    [] OTHER -> "DBRandomSample"

\* New with any ForeignKeyLinks; sampleFieldsTable reaches a constraint of
\* the table tableName that references refTableName
InitFK ==
  /\ table = [gen |-> 0, unsup |-> {}, constraints |-> <<1>>]
  /\ InitInsert
  /\ fklinks \in Links
  /\ tableName \in TableNames /\ refTableName \in TableNames
  /\ fklink = "" /\ sampler = "" /\ fkpc = "resolve"

\* generate.go:271
Resolve ==
  /\ fkpc = "resolve"
  /\ fklink' = relationship(fklinks, tableName, refTableName)
  /\ fkpc' = "create"
  /\ UNCHANGED <<insertVars, fklinks, tableName, refTableName, sampler>>

\* generate.go:272
CreateSampler ==
  /\ fkpc = "create"
  /\ sampler' = createSamplerFromForeignkeyLinks(fklink)
  /\ fkpc' = "made"
  /\ UNCHANGED <<insertVars, fklinks, tableName, refTableName, fklink>>

NextFK ==
  \/ Resolve
  \/ CreateSampler

SpecFK == InitFK /\ [][NextFK]_vars

\* ============================================================ properties
InRun == lastOp \in {"Run", "DryRun"}

\* floor(c / b) statements of b rows, then the remainder when it is not zero
PlanSizes(c, b) ==
  [k \in 1 .. (c \div b) |-> b] \o (IF c % b # 0 THEN <<c % b>> ELSE <<>>)

IsPrefix(s, t) == Len(s) <= Len(t) /\ s = SubSeq(t, 1, Len(s))

\* C1: for count >= 0, the statements a run has issued are at every moment a
\* prefix of the plan (floor(count/bulksize) statements of bulksize rows, then
\* one of the remainder unless it is 0); a run that returns with no failed
\* statement has issued the whole plan: its rows sum to count and there are
\* ceil(count/bulksize) statements.
C1_ChunkPlan ==
  (InRun /\ count >= 0) =>
    /\ IsPrefix(issued, PlanSizes(count, bulksize))
    /\ (pc = "done" /\ failedAt = 0) =>
         /\ issued = PlanSizes(count, bulksize)
         /\ SumSeq(issued) = count
         /\ Len(issued) = (count + bulksize - 1) \div bulksize

C1_Witness ==
  /\ pc = "done" /\ failedAt = 0 /\ count = 3 /\ bulksize = 2
  /\ issued = <<2, 1>>

\* C2: once a statement has failed it is the last one issued (no further
\* statement, no retry), the failed statement adds nothing to the count, and
\* the run returns a non-nil error with the rows reported by the statements
\* that succeeded before it.
C2_StopsOnError ==
  (InRun /\ failedAt # 0) =>
    /\ failedAt = Len(issued)
    /\ okCount = okSum
    /\ (count >= 0 => IsPrefix(issued, PlanSizes(count, bulksize)))
    /\ pc = "done" => (ret.err # "nil" /\ ret.n = okSum)

C2_Witness ==
  /\ pc = "done" /\ count = 3 /\ bulksize = 1 /\ ~dryRun
  /\ failedAt = 2 /\ ret.n = 1 /\ ret.err = "exec"

\* C3 (the claim as stated): when the sampling of a chunk fails, that chunk's
\* statement is neither executed nor written, no later chunk is built, and the
\* run returns a non-nil error.
C3_SamplingFailurePropagates ==
  (InRun /\ sampleErrAt # 0) =>
    /\ ~issuedBad
    /\ built = sampleErrAt
    /\ Len(issued) < sampleErrAt
    /\ pc = "done" => ret.err # "nil"

\* C4: a run with count < 1 builds no chunk, issues no statement, executes and
\* writes nothing, and returns (0, nil).
C4_NothingBelowOne ==
  (InRun /\ count < 1) =>
    /\ built = 0 /\ issued = <<>> /\ execs = 0 /\ sink = 0 /\ okCount = 0
    /\ pc = "done" => ret = [valid |-> TRUE, n |-> 0, err |-> "nil"]

C4_Witness ==
  /\ pc = "done" /\ count = 0 - 1 /\ bulksize = 2 /\ remainder = 0 - 1
  /\ ret = [valid |-> TRUE, n |-> 0, err |-> "nil"]

\* C5 (the claim as stated): a notification never blocks the run (the step
\* can always be taken), every attempt is either handed to a ready receiver or
\* dropped, and the run goes on as it would without a channel.
C5_NotifyNeverDisturbsRun ==
  /\ pc = "notify" => ENABLED Notify
  /\ lastNote \in {"none", "nochan", "sent", "dropped"}
  /\ panicAt # "notify"

\* C6 (the claim as stated): a channel requested before the run is closed when
\* the run returns, on every exit path, and is not closed while the run can
\* still attempt a notification.
C6_ClosedAtReturnNotBefore ==
  (InRun /\ deferChan) =>
    /\ pc = "done" => notifyChan = "closed"
    /\ pc \in {"loop", "spawn_gen", "spawn_sample", "wait", "render", "exec",
               "notify"} => notifyChan = "open"
    /\ lastNote # "panic"

\* C7 (the claim as stated): every NotifyChan call closes the prior channel, if
\* there is one, and installs and returns a fresh open channel.
C7_NotifyChanFresh ==
  lastOp = "NotifyChan" =>
    /\ pc # "panic"
    /\ retChan = "open" /\ notifyChan = "open"
    /\ prevChan \in {"nil", "closed"}

\* what the dry-run branch wrote for the last chunk: the text, then a newline
LastWriteIsQueryAndNewline ==
  /\ Len(query) >= 1 /\ query[1].k = "hdr"
  /\ Len(lastWrite.arg) = Len(query) + 1
  /\ SubSeq(lastWrite.arg, 1, Len(query)) = query
  /\ lastWrite.arg[Len(lastWrite.arg)] = Tok("nl", <<>>)

\* the parts of C8 that hold for every count
C8_DryRunWrites ==
  (InRun /\ dryRun) =>
    /\ execs = 0
    /\ sink = Len(issued)
    /\ (sink > 0 /\ pc \in {"notify", "return", "done"}) => LastWriteIsQueryAndNewline
    /\ (pc = "notify" /\ cnt >= 1 /\ err = "nil") => n = cnt

\* C8 (as amended): in a dry run nothing is executed on the database, every
\* chunk of at least one row makes exactly one Write of the statement text
\* followed by one newline, a successful Write reports the chunk's count, and a
\* dry run with count >= 0 that returns with no failed Write returns (count, nil).
C8_DryRunAmended ==
  /\ C8_DryRunWrites
  /\ (InRun /\ dryRun /\ pc = "done" /\ failedAt = 0 /\ count >= 0) =>
       (ret.n = count /\ ret.err = "nil")

\* C8 (the claim as stated): the same with the result (count, nil) for every count
C8_DryRunOriginal ==
  /\ C8_DryRunWrites
  /\ (InRun /\ dryRun /\ pc = "done" /\ failedAt = 0) =>
       (ret.n = count /\ ret.err = "nil")

C8_Witness ==
  /\ pc = "done" /\ dryRun /\ count = 3 /\ bulksize = 2 /\ failedAt = 0
  /\ sink = 2 /\ ret.n = 3 /\ lastWrite.ok

\* C9: when the rendering of the buffer starts (and until the statement is
\* handed over), every phase that was started has finished and no phase is
\* running; a phase is started exactly when it has columns.
PhaseFinished(phasepc, nfields) == phasepc = IF nfields # 0 THEN "done" ELSE "off"

C9_RenderAfterJoin ==
  pc \in {"render", "exec"} =>
    /\ PhaseFinished(genpc, FieldsToGenerate(table))
    /\ PhaseFinished(samplepc, FieldsToSample(table))
    /\ genpc = "done" => genRow = cnt
    /\ wg = 0

C9_Witness ==
  /\ pc = "render" /\ cnt = 2 /\ genpc = "done" /\ samplepc = "done"
  /\ Len(table.constraints) = 2

\* the columns the claim gives to the j-th constraint
OffsetOf(t, j) == SumSeq(SubSeq(t.constraints, 1, j - 1))
ClaimedCols(t, j) ==
  (t.gen + OffsetOf(t, j) + 1) .. (t.gen + OffsetOf(t, j) + t.constraints[j])

\* C10: every write of the generation phase is in columns [0, G), every write
\* of the j-th constraint's sampler is in [G+off_j, G+off_j+len_j); these
\* ranges are inside the row and pairwise disjoint, and no cell has two writers.
C10_DisjointWriters ==
  /\ \A w \in writers :
       /\ w[1] \in DOMAIN values
       /\ w[2] \in 1 .. (FieldsToGenerate(table) + FieldsToSample(table))
       /\ w[2] \in DOMAIN values[w[1]].cells
       /\ w[3].by = "gen" => w[2] \in 1 .. table.gen
       /\ w[3].by = "fk" => w[2] \in ClaimedCols(table, w[3].j)
  /\ Cardinality({<<w[1], w[2]>> : w \in writers}) = Cardinality(writers)
  /\ \A j1, j2 \in 1 .. Len(table.constraints) :
       /\ ClaimedCols(table, j1) \cap (1 .. table.gen) = {}
       /\ j1 # j2 => ClaimedCols(table, j1) \cap ClaimedCols(table, j2) = {}

C10_Witness ==
  /\ pc = "render" /\ cnt = 2 /\ table.gen = 1 /\ table.constraints = <<1, 2>>
  /\ Cardinality(writers) = 2 * 4

\* the caller's goroutine is assembling a chunk (genQuery has not returned)
Assembling == pc \in {"spawn_gen", "spawn_sample", "wait", "render"}

\* a goroutine of genQuery is still filling the row buffer
Filling == genpc = "run" \/ samplepc \in {"run", "ret"}

\* C11: chunks are processed one after another: the assembly of a chunk starts
\* only when the statements of all chunks built before it have returned, so
\* the chunks built exceed the statements returned by at most one; while a
\* statement is in flight, and between two chunks, no row buffer is being
\* filled; every statement went to the database or to the sink, one at a time.
C11_OneChunkAtATime ==
  InRun =>
    /\ Assembling => built = Len(issued) + 1
    /\ pc = "exec" => (built = Len(issued) + 1 /\ ~Filling)
    /\ pc \in {"loop", "notify", "return", "done"} =>
         (built = Len(issued) /\ values = <<>> /\ ~Filling)
    /\ execs + sink = Len(issued)
    /\ (count >= 0 => IsPrefix(issued, PlanSizes(count, bulksize)))

C11_Witness ==
  /\ pc = "exec" /\ built = 3 /\ issued = <<1, 1>> /\ count = 3
  /\ genpc = "done" /\ samplepc = "done"

\* the map m associates the table t with the referenced table r
Associates(m, t, r) == t \in DOMAIN m /\ m[t] = r

\* C12: the sampler made for a pair is Uniform 1-1 if the 1-1 map associates
\* the pair, else Random 1-N if the random-1-N map associates it, else the one
\* the default kind names, Random 1-N when that kind is not "1-1"; a 1-1
\* override wins over a random-1-N override, and a pair with no override gets
\* Uniform 1-1 only from a default kind of 1-1.
C12_SamplerChoice ==
  fkpc = "made" =>
    LET one == Associates(fklinks.OneToOne, tableName, refTableName)
        many == Associates(fklinks.DBRandomOneToMany, tableName, refTableName)
    IN /\ sampler = IF one THEN "UniformSample"
                    ELSE IF many THEN "DBRandomSample"
                    ELSE IF fklinks.DefaultRelationship = "1-1" THEN "UniformSample"
                    ELSE "DBRandomSample"
       /\ (one /\ many) => sampler = "UniformSample"
       /\ (~one /\ ~many /\ fklinks.DefaultRelationship # "1-1") =>
            sampler # "UniformSample"

C12_Witness ==
  /\ fkpc = "made" /\ sampler = "UniformSample"
  /\ Associates(fklinks.OneToOne, tableName, refTableName)
  /\ Associates(fklinks.DBRandomOneToMany, tableName, refTableName)
  /\ fklinks.DefaultRelationship = "random-1-n"

\* a run that returned with no failed statement, in which every statement
\* reported all its rows (a dry run always does)
FullySuccessful ==
  InRun /\ pc = "done" /\ failedAt = 0 /\ okSum = SumSeq(issued)

\* the chunks both modes issue for the same arguments
SameChunks ==
  (InRun /\ pc = "done" /\ failedAt = 0) =>
    issued = IF count >= 0 THEN PlanSizes(count, bulksize) ELSE <<>>

\* C13 (as amended): for the same count >= 0 and bulksize, a fully successful
\* dry run and a fully successful real run both return (count, nil) and both
\* issue the chunks of the plan in order; for count < 0 both return (0, nil)
\* and issue nothing.
C13_ModesAgreeAmended ==
  /\ SameChunks
  /\ FullySuccessful =>
       (ret.n = (IF count >= 0 THEN count ELSE 0) /\ ret.err = "nil")
  /\ (InRun /\ pc = "done" /\ failedAt = 0 /\ dryRun) => okSum = SumSeq(issued)

\* C13 (the claim as stated): both modes return count, for every count
C13_ModesAgreeOriginal ==
  /\ SameChunks
  /\ FullySuccessful => (ret.n = count /\ ret.err = "nil")

C13_Witness ==
  /\ FullySuccessful /\ ~dryRun /\ count = 3 /\ bulksize = 2
  /\ issued = <<2, 1>> /\ execs = 2 /\ ret.n = 3

\* the rows of a rendered statement
RowToks(q) == {k \in DOMAIN q : q[k].k = "row"}

\* C16: a generate-column of an unsupported type does not abort anything: at
\* the join the generation phase has completed, every row has its cell of an
\* unsupported column without a value and its cell of every other
\* generate-column generated, one log line was written per row and
\* unsupported column, the statement is rendered with all its rows, and every
\* chunk built is issued.
C16_UnsupportedTypeNotFatal ==
  /\ pc = "render" =>
       /\ genpc = "done" /\ Len(values) = cnt
       /\ \A r \in 1 .. cnt, k \in 1 .. table.gen :
            values[r].cells[k] = IF k \in table.unsup THEN Unset ELSE Generated
       /\ logged = {<<r, k>> : r \in 1 .. cnt, k \in table.unsup}
  /\ pc = "exec" =>
       /\ query = Render(table, values)
       /\ Cardinality(RowToks(query)) = cnt
       /\ \A t \in RowToks(query), k \in 1 .. table.gen :
            query[t].cells[k] = IF k \in table.unsup THEN Unset ELSE Generated
  /\ (InRun /\ pc \in {"loop", "notify", "return", "done"}) => built = Len(issued)

C16_Witness ==
  /\ pc = "notify" /\ table = [gen |-> 2, unsup |-> {1}, constraints |-> <<>>]
  /\ issued = <<2>> /\ err = "nil"
  /\ query[2] = Tok("row", <<Unset, Generated>>)
  /\ query[4] = Tok("row", <<Unset, Generated>>)

\* the value the claim puts at position k of a row of the table t
ClaimedValue(t, k) ==
  IF k <= t.gen THEN Generated
  ELSE Sampled(CHOOSE j \in 1 .. Len(t.constraints) : k \in ClaimedCols(t, j))

Succeeded == Len(issued) - (IF failedAt # 0 THEN 1 ELSE 0)

\* the run is between two chunks, or over
BetweenChunks == pc \in {"loop", "return", "done"}

\* C15 (the claim as stated): with a channel, between two chunks the values
\* attempted so far are the row counts of the statements that succeeded so
\* far, one value per statement, in statement order (in a dry run these are
\* the sizes of the chunks).
C15_NotesAreStatementCounts ==
  (InRun /\ deferChan /\ BetweenChunks) =>
    /\ Len(notes) = Succeeded
    /\ SumSeq(notes) = okSum
    /\ dryRun => notes = SubSeq(issued, 1, Succeeded)

\* C19 (the claim as stated): a notification is attempted only for a
\* statement that was issued and succeeded: there are never more attempts
\* than statements that succeeded, so none when count < 1, none for a
\* remainder of 0 and none for a statement that failed; when the run is over
\* the two numbers are equal.
C19_NotifyOnlyForSucceeded ==
  (InRun /\ deferChan) =>
    /\ Len(notes) <= Succeeded
    /\ count < 1 => notes = <<>>
    /\ (pc \in {"return", "done"} /\ panicAt = "") => Len(notes) = Succeeded

C18_NoDoubleCloseNoSendOnClosed ==
  /\ panicAt \notin {"NotifyChan", "return"}
  /\ panicAt # "notify"

\* the goroutines of genQuery that were started and have not called wg.Done()
Started ==
  (IF genpc = "run" THEN 1 ELSE 0) + (IF samplepc \in {"run", "ret"} THEN 1 ELSE 0)

\* the safety part of C20
JoinCounterSound ==
  /\ wg = Started /\ wg >= 0
  /\ panicAt # "wg.Done"
  /\ pc \in {"wait", "render", "exec"} =>
       /\ genpc = "off" <=> FieldsToGenerate(table) = 0
       /\ samplepc = "off" <=> FieldsToSample(table) = 0
  /\ pc = "exec" => Cardinality(RowToks(query)) = cnt

\* C20: the join counter is at every moment the number of phases started and
\* not yet finished (each started phase signals once, also after a sampling
\* error, and the counter never goes below zero), and the assembly of a chunk
\* always ends with the statement of its count rows rendered, also when one
\* phase or none was started.
C20_AssemblyTerminates ==
  /\ []JoinCounterSound
  /\ (pc = "spawn_gen") ~> (pc = "exec")

C20_Witness ==
  /\ pc = "exec" /\ cnt = 2 /\ table.gen = 0 /\ table.constraints = <<>>
  /\ genpc = "off" /\ samplepc = "off"
  /\ query = <<Tok("hdr", <<>>), Tok("row", <<>>), Tok("comma", <<>>), Tok("row", <<>>)>>

====
